---- MODULE Spec2Model ----
(***************************************************************************)
(* MifareLab: the MIFARE Classic dump decoder DumpToJson                   *)
(* (src/src/utils/NFCDumptoJSON.js) with its helpers hex2bin and           *)
(* guessUidSize, and the byte source that feeds it (the "read-file" IPC    *)
(* handler of src/electron/electron.js).                                   *)
(*                                                                         *)
(* A text is a sequence of one-character strings.  A Uint8Array is a       *)
(* sequence of integers in 0..255.  Other JavaScript values (the results   *)
(* of parseInt, array reads past the end, null) are tagged records         *)
(* [t, n], so that NaN, undefined and null stay distinct from numbers.     *)
(***************************************************************************)
EXTENDS Integers, Sequences, FiniteSets, TLC

\* ------------------------------------------------------------------------
\* Bounds of the model
\* ------------------------------------------------------------------------

\* Longest file, in whole 16-byte blocks, that the general input family holds.
MaxBlocks == 5

\* Largest number of sectors of the family of long well-formed dumps.
MaxLongSectors == 17

\* ------------------------------------------------------------------------
\* Program constants
\* ------------------------------------------------------------------------

SECTOR_SIZE == 64

BLOCK_SIZE == 16

SECTOR_COUNT == 16

BLOCK_COUNT == 4

\* ------------------------------------------------------------------------
\* JavaScript values
\* ------------------------------------------------------------------------

Num(n) == [t |-> "number", n |-> n]

NaN == [t |-> "NaN", n |-> 0]

Undefined == [t |-> "undefined", n |-> 0]

JsNull == [t |-> "null", n |-> 0]

\* The string a function returns in place of a number ("unknown").
Str(s) == [t |-> s, n |-> 0]

\* The outcome of an expression that throws a TypeError.
TypeError == [t |-> "TypeError", n |-> 0]

IsNum(v) == v.t = "number"

\* A nullable array: null, or the array v.
NullArr == [null |-> TRUE, v |-> << >>]

Arr(a) == [null |-> FALSE, v |-> a]

\* arr[k] with JavaScript's zero-based index; undefined past the end.
At(arr, k) == IF k >= 0 /\ k < Len(arr) THEN arr[k + 1] ELSE Undefined

\* Array.prototype.slice(from, to) with non-negative integer arguments.
Slice(arr, from, to) ==
    LET hi == IF to < Len(arr) THEN to ELSE Len(arr)
    IN  IF from >= hi THEN << >> ELSE SubSeq(arr, from + 1, hi)

\* ToUint8 of a JavaScript value, as new Uint8Array([...]) stores it.
ToUint8(v) == IF IsNum(v) THEN v.n % 256 ELSE 0

Uint8Array(a) == [k \in 1..Len(a) |-> ToUint8(a[k])]

\* new Uint8Array(n): n zero bytes.
Zeros(n) == [k \in 1..n |-> 0]

\* ------------------------------------------------------------------------
\* Characters and texts
\* ------------------------------------------------------------------------

Digits == <<"0", "1", "2", "3", "4", "5", "6", "7", "8", "9",
            "A", "B", "C", "D", "E", "F">>

LowerDigits == <<"0", "1", "2", "3", "4", "5", "6", "7", "8", "9",
                 "a", "b", "c", "d", "e", "f">>

\* The class [A-F0-9] of the decoder's regular expressions.
IsHexUpper(c) == \E d \in 1..16 : Digits[d] = c

\* The digits parseInt(., 16) accepts: both cases.
IsHexDigit(c) == \E d \in 1..16 : Digits[d] = c \/ LowerDigits[d] = c

DigitValue(c) == (CHOOSE d \in 1..16 : Digits[d] = c \/ LowerDigits[d] = c) - 1

\* The class \s, as far as the model's alphabet goes.
IsWhitespace(c) == c \in {" ", "\n", "\t"}

\* String.prototype.toUpperCase on one character of the model's alphabet.
UpperChar(c) ==
    IF \E d \in 11..16 : LowerDigits[d] = c
    THEN Digits[CHOOSE d \in 11..16 : LowerDigits[d] = c]
    ELSE IF c = "g" THEN "G" ELSE IF c = "x" THEN "X" ELSE c

toUpperCase(s) == [k \in 1..Len(s) |-> UpperChar(s[k])]

\* Normalize without the conversion to upper case.
NormalizeKeepingCase(s) == SelectSeq(s, LAMBDA c : ~IsWhitespace(c))

\* dump.replace(/\s/g, '').toUpperCase()
Normalize(s) == toUpperCase(SelectSeq(s, LAMBDA c : ~IsWhitespace(c)))

\* Chunks with the quantifier {n} in place of {1,n}: whole chunks only, a
\* shorter remainder is dropped.
ChunksOfFullWidth(s, n) ==
    [k \in 1..(Len(s) \div n) |-> SubSeq(s, (k - 1) * n + 1, k * n)]

\* s.match(new RegExp(`.{1,${n}}`, 'g')) || [] : consecutive chunks of n
\* characters, the last one shorter when n does not divide the length.
Chunks(s, n) ==
    LET cnt == (Len(s) + n - 1) \div n
    IN  [k \in 1..cnt |->
            SubSeq(s, (k - 1) * n + 1,
                   IF k * n < Len(s) THEN k * n ELSE Len(s))]

\* MatchesHex with the class . in place of [A-F0-9]: ^.{n}$.
MatchesAnyCharacters(s, n) == Len(s) = n

\* Whether s matches ^[A-F0-9]{n}$.
MatchesHex(s, n) == Len(s) = n /\ \A k \in 1..n : IsHexUpper(s[k])

\* The value of a run of hexadecimal digits, most significant first.
RECURSIVE HexValue(_)
HexValue(ds) ==
    IF Len(ds) = 0 THEN 0
    ELSE 16 * HexValue(SubSeq(ds, 1, Len(ds) - 1)) + DigitValue(ds[Len(ds)])

\* parseInt16 giving NaN for every string that is not made of hexadecimal
\* digits alone.
parseInt16OfDigitsOnly(s) ==
    IF Len(s) > 0 /\ \A k \in 1..Len(s) : IsHexDigit(s[k])
    THEN Num(HexValue(s)) ELSE NaN

\* parseInt(s, 16): optional sign, optional 0x prefix, then the longest
\* run of hexadecimal digits; NaN when that run is empty.
parseInt16(s) ==
    LET neg  == Len(s) >= 1 /\ s[1] = "-"
        k1   == IF Len(s) >= 1 /\ s[1] \in {"-", "+"} THEN 2 ELSE 1
        pref == Len(s) >= k1 + 1 /\ s[k1] = "0" /\ s[k1 + 1] \in {"x", "X"}
        k2   == IF pref THEN k1 + 2 ELSE k1
        last == CHOOSE q \in (k2 - 1)..Len(s) :
                    /\ \A r \in k2..q : IsHexDigit(s[r])
                    /\ q = Len(s) \/ ~IsHexDigit(s[q + 1])
        mag  == HexValue(SubSeq(s, k2, last))
    IN  IF last < k2 THEN NaN ELSE Num(IF neg THEN 0 - mag ELSE mag)

\* block.match(/.{1,2}/g).map(byte => parseInt(byte, 16))
ParseBytes(s) ==
    LET pairs == Chunks(s, 2)
    IN  [k \in 1..Len(pairs) |-> parseInt16(pairs[k])]

\* n.toString(2), most significant bit first, for n >= 0.
RECURSIVE ToString2(_)
ToString2(n) ==
    IF n < 2 THEN <<Digits[n + 1]>>
    ELSE Append(ToString2(n \div 2), Digits[(n % 2) + 1])

\* n.toString(16) for n >= 0: lower-case digits, no padding.
RECURSIVE ToString16(_)
ToString16(n) ==
    IF n < 16 THEN <<LowerDigits[n + 1]>>
    ELSE Append(ToString16(n \div 16), LowerDigits[(n % 16) + 1])

\* s.padStart(n, '0')
PadStart(s, n) == IF Len(s) >= n THEN s ELSE [k \in 1..(n - Len(s)) |-> "0"] \o s

\* parseInt(bits, 2) of a string of binary digits.
RECURSIVE ParseInt2(_)
ParseInt2(bits) ==
    IF Len(bits) = 0 THEN 0
    ELSE 2 * ParseInt2(SubSeq(bits, 1, Len(bits) - 1))
         + (IF bits[Len(bits)] = "1" THEN 1 ELSE 0)

\* x ^ 0xFF for 0 <= x <= 255, bit by bit.
RECURSIVE XorBits(_, _, _)
XorBits(x, y, w) ==
    IF w = 0 THEN 0
    ELSE 2 * XorBits(x \div 2, y \div 2, w - 1) + (((x % 2) + (y % 2)) % 2)

Xor8(x, y) == XorBits(x, y, 8)

\* parseInt(hex, 16).toString(2).padStart(8, '0'); NaN prints as "NaN".
hex2bin(hex) ==
    IF IsNum(parseInt16(hex))
    THEN PadStart(ToString2(parseInt16(hex).n), 8)
    ELSE PadStart(<<"N", "a", "N">>, 8)

\* ------------------------------------------------------------------------
\* guessUidSize
\* ------------------------------------------------------------------------

\* uidIndicator shifting by 5, the bits counted from 0.
uidIndicatorShift5(atqa) ==
    LET lsb == At(atqa.v, 0)
    IN  IF IsNum(lsb) THEN (lsb.n \div 32) % 8 ELSE 0

\* (atqa[0] >> 4) & 0x07, with ToInt32 of a value that is no number being 0.
uidIndicator(atqa) ==
    LET lsb == At(atqa.v, 0)
    IN  IF IsNum(lsb) THEN (lsb.n \div 16) % 8 ELSE 0

\* guessUidSize without its two tests of sak: the size is read from atqa
\* alone.
guessUidSizeFromAtqaAlone(sak, atqa) ==
    IF atqa.null THEN TypeError
    ELSE IF uidIndicator(atqa) = 0 THEN Num(4)
    ELSE IF uidIndicator(atqa) = 1 THEN Num(7)
    ELSE IF uidIndicator(atqa) = 2 THEN Num(10)
    ELSE Str("unknown")

\* sak is a JavaScript value, atqa a nullable array.  Reading atqa[0] of
\* null throws a TypeError.
guessUidSize(sak, atqa) ==
    IF sak = Num(\h08) THEN Num(4)
    ELSE IF sak = Num(\h18) THEN Num(7)
    ELSE IF atqa.null THEN TypeError
    ELSE IF uidIndicator(atqa) = 0 THEN Num(4)
    ELSE IF uidIndicator(atqa) = 1 THEN Num(7)
    ELSE IF uidIndicator(atqa) = 2 THEN Num(10)
    ELSE Str("unknown")

\* ------------------------------------------------------------------------
\* The records DumpToJson builds
\* ------------------------------------------------------------------------

\* FileJSON.manifacturer as first constructed.
InitManifacturer ==
    [uid  |-> Zeros(10),
     nuid |-> Zeros(4),
     bcc  |-> NullArr,
     sak  |-> NullArr,
     ataq |-> NullArr,
     data |-> Zeros(0)]

\* Sector.sectorTrailer as first constructed.
InitSectorTrailer ==
    [keyA     |-> Zeros(6),
     keyB     |-> Zeros(6),
     userdata |-> Zeros(1),
     accessConditions |-> [unParsed |-> Zeros(3), parsed |-> << >>]]

\* Sector as first constructed by the forEach callback.
InitSector ==
    [dataValues |-> << >>, dataTypes |-> << >>, sectorTrailer |-> InitSectorTrailer]

InitFileJSON == [manifacturer |-> InitManifacturer, sectors |-> << >>]

\* ------------------------------------------------------------------------
\* Sector trailer (block j = BLOCK_COUNT - 1)
\* ------------------------------------------------------------------------

\* TrailerGroups with the user byte taken before the access conditions.
TrailerGroupsUserByteFirst(block) ==
    <<SubSeq(block, 1, 12), SubSeq(block, 15, 20),
      SubSeq(block, 13, 14), SubSeq(block, 21, 32)>>

\* The capture groups of
\* /^([A-F0-9]{12})([A-F0-9]{6})([A-F0-9]{2})([A-F0-9]{12})$/
TrailerGroups(block) ==
    <<SubSeq(block, 1, 12), SubSeq(block, 13, 18),
      SubSeq(block, 19, 20), SubSeq(block, 21, 32)>>

\* bit ^ 1 of a character '0' or '1', joined back into the string.
FlipBitChar(c) == IF c = "0" THEN "1" ELSE "0"

\* AccessTuple taking character k counted from the right end of the
\* binary string.
AccessTupleFromRight(AccessConditions, k) ==
    <<AccessConditions[2][8 - k],
      FlipBitChar(AccessConditions[1][8 - k]),
      AccessConditions[3][8 - k]>>

\* [C1, C2, C3].join('') for the loop index k; charAt(k) counts from the
\* left end of the 8-character binary string.
AccessTuple(AccessConditions, k) ==
    <<AccessConditions[2][k + 1],
      FlipBitChar(AccessConditions[1][k + 1]),
      AccessConditions[3][k + 1]>>

\* ParseAccess with the loop starting at k = BLOCK_COUNT - 2.
ParseAccessFromBlock2(accessHex) ==
    LET pairs == Chunks(accessHex, 2)
        AccessConditions == [b \in 1..Len(pairs) |-> hex2bin(pairs[b])]
    IN  [n \in 1..(BLOCK_COUNT - 1) |->
            AccessTuple(AccessConditions, BLOCK_COUNT - 1 - n)]

\* ParseAccess with the loop running upwards: for (k = 0; k < BLOCK_COUNT;
\* k++).
ParseAccessAscending(accessHex) ==
    LET pairs == Chunks(accessHex, 2)
        AccessConditions == [b \in 1..Len(pairs) |-> hex2bin(pairs[b])]
    IN  [n \in 1..BLOCK_COUNT |-> AccessTuple(AccessConditions, n - 1)]

\* The loop for (k = BLOCK_COUNT - 1; k >= 0; k--) with its pushes.
ParseAccess(accessHex) ==
    LET pairs == Chunks(accessHex, 2)
        AccessConditions == [b \in 1..Len(pairs) |-> hex2bin(pairs[b])]
    IN  [n \in 1..BLOCK_COUNT |-> AccessTuple(AccessConditions, BLOCK_COUNT - n)]

\* DecodeTrailer parsing the access conditions from the last two access
\* bytes and the user byte.
DecodeTrailerParsingUserByte(st, block) ==
    LET SectorTrailer == TrailerGroups(block)
    IN  [keyA     |-> Uint8Array(ParseBytes(SectorTrailer[1])),
         keyB     |-> Uint8Array(ParseBytes(SectorTrailer[4])),
         userdata |-> Uint8Array(ParseBytes(SectorTrailer[3])),
         accessConditions |->
            [unParsed |-> Uint8Array(ParseBytes(SectorTrailer[2])),
             parsed   |-> st.accessConditions.parsed
                              \o ParseAccess(SubSeq(block, 15, 20))]]

\* DecodeTrailer with the assignment of keyB left out.
DecodeTrailerWithoutKeyB(st, block) ==
    LET SectorTrailer == TrailerGroups(block)
    IN  [keyA     |-> Uint8Array(ParseBytes(SectorTrailer[1])),
         keyB     |-> st.keyB,
         userdata |-> Uint8Array(ParseBytes(SectorTrailer[3])),
         accessConditions |->
            [unParsed |-> Uint8Array(ParseBytes(SectorTrailer[2])),
             parsed   |-> st.accessConditions.parsed
                              \o ParseAccess(SectorTrailer[2])]]

\* The trailer branch: the sectorTrailer record after it, given the one
\* before it.
DecodeTrailer(st, block) ==
    LET SectorTrailer == TrailerGroups(block)
    IN  [keyA     |-> Uint8Array(ParseBytes(SectorTrailer[1])),
         keyB     |-> Uint8Array(ParseBytes(SectorTrailer[4])),
         userdata |-> Uint8Array(ParseBytes(SectorTrailer[3])),
         accessConditions |->
            [unParsed |-> Uint8Array(ParseBytes(SectorTrailer[2])),
             parsed   |-> st.accessConditions.parsed
                              \o ParseAccess(SectorTrailer[2])]]

\* ------------------------------------------------------------------------
\* Manufacturer block (i = 0, j = 0)
\* ------------------------------------------------------------------------

\* a == b for a JavaScript value a and a number b.
LooseEq(a, b) == IsNum(a) /\ a.n = b

\* is4bytes with the tag looked for one byte early.
is4bytesOneEarly(ManifacturerData) ==
    /\ LooseEq(At(ManifacturerData, 4), \h08) \/ LooseEq(At(ManifacturerData, 4), \h88)
    /\ LooseEq(At(ManifacturerData, 5), \h04)
    /\ LooseEq(At(ManifacturerData, 6), \h00)

is4bytes(ManifacturerData) ==
    /\ LooseEq(At(ManifacturerData, 5), \h08) \/ LooseEq(At(ManifacturerData, 5), \h88)
    /\ LooseEq(At(ManifacturerData, 6), \h04)
    /\ LooseEq(At(ManifacturerData, 7), \h00)

is7bytes(ManifacturerData) ==
    /\ LooseEq(At(ManifacturerData, 7), \h18) \/ LooseEq(At(ManifacturerData, 7), \h98)
    /\ LooseEq(At(ManifacturerData, 8), \h44)
    /\ LooseEq(At(ManifacturerData, 9), \h00)

SAKof(ManifacturerData) ==
    IF is4bytes(ManifacturerData) THEN At(ManifacturerData, 5)
    ELSE IF is7bytes(ManifacturerData) THEN At(ManifacturerData, 7)
    ELSE JsNull

ATQAof(ManifacturerData) ==
    IF is4bytes(ManifacturerData) THEN Arr(Slice(ManifacturerData, 6, 8))
    ELSE IF is7bytes(ManifacturerData) THEN Arr(Slice(ManifacturerData, 8, 10))
    ELSE NullArr

\* slice's ToIntegerOrInfinity of its argument: a string that is no
\* number gives NaN, hence 0.
SliceIndex(v) == IF IsNum(v) THEN v.n ELSE 0

\* SAK ? 1 : 0
Truthy(v) == IsNum(v) /\ v.n # 0

\* uidSize + (bcc ? 1 : 0) + (SAK ? 1 : 0) + (ATQA ? 2 : 0): a sum when
\* uidSize is a number, a string concatenation otherwise.
dataStart(uidSize, bcc, SAK, ATQA) ==
    IF IsNum(uidSize)
    THEN Num(uidSize.n + (IF bcc.null THEN 0 ELSE 1)
                       + (IF Truthy(SAK) THEN 1 ELSE 0)
                       + (IF ATQA.null THEN 0 ELSE 2))
    ELSE Str("unknown012")

\* The manufacturer branch: [throws, m], m being FileJSON.manifacturer
\* after the branch.
DecodeManufacturer(block) ==
    LET ManifacturerData == ParseBytes(block)
        SAK     == SAKof(ManifacturerData)
        ATQA    == ATQAof(ManifacturerData)
        uidSize == guessUidSize(SAK, ATQA)
        bcc     == IF uidSize = Num(4)
                   THEN Arr(Uint8Array(<<At(ManifacturerData, 4)>>))
                   ELSE NullArr
        start   == dataStart(uidSize, bcc, SAK, ATQA)
    IN  IF uidSize = TypeError
        THEN [throws |-> TRUE, m |-> InitManifacturer]
        ELSE [throws |-> FALSE,
              m |-> [uid  |-> Uint8Array(Slice(ManifacturerData, 0, SliceIndex(uidSize))),
                     nuid |-> Uint8Array(Slice(ManifacturerData, 0, 4)),
                     bcc  |-> bcc,
                     sak  |-> Arr(Uint8Array(<<SAK>>)),
                     ataq |-> Arr(Uint8Array(ATQA.v)),
                     data |-> Uint8Array(Slice(ManifacturerData, SliceIndex(start),
                                               Len(ManifacturerData)))]]

\* ------------------------------------------------------------------------
\* Data blocks (every other block)
\* ------------------------------------------------------------------------

\* The capture groups of
\* /^([A-F0-9]{8})([A-F0-9]{8})([A-F0-9]{8})([A-F0-9]{2})([A-F0-9]{2})([A-F0-9]{2})([A-F0-9]{2})$/
ValueGroups(block) ==
    <<SubSeq(block, 1, 8), SubSeq(block, 9, 16), SubSeq(block, 17, 24),
      SubSeq(block, 25, 26), SubSeq(block, 27, 28),
      SubSeq(block, 29, 30), SubSeq(block, 31, 32)>>

RECURSIVE Join(_)
Join(ss) == IF Len(ss) = 0 THEN << >> ELSE ss[1] \o Join(Tail(ss))

\* ValueBlock[1].match(/.{1,2}/g).map(hex2bin).map(b => parseInt(b, 2) ^ 0xFF)
\*     .map(b => b.toString(16).padStart(2, '0')).join('').toUpperCase()
InvertValue(hex) ==
    LET pairs == Chunks(hex, 2)
    IN  toUpperCase(Join([k \in 1..Len(pairs) |->
            PadStart(ToString16(Xor8(ParseInt2(hex2bin(pairs[k])), \hFF)), 2)]))

\* (parseInt(h, 16) ^ 0xFF).toString(16).padStart(2, '0').toUpperCase()
InvertAddress(hex) ==
    toUpperCase(PadStart(ToString16(Xor8(parseInt16(hex).n, \hFF)), 2))

\* IsValueBlock without the comparison of the last address copy.
IsValueBlockThreeAddresses(block) ==
    LET g  == ValueGroups(block)
        v1 == InvertValue(g[2])
        a4 == InvertAddress(g[5])
    IN  /\ g[1] = v1 /\ v1 = g[3]
        /\ g[4] = a4 /\ a4 = g[6]

\* IsValueBlock without the comparison of the third value copy.
IsValueBlockTwoValueCopies(block) ==
    LET g  == ValueGroups(block)
        v1 == InvertValue(g[2])
        a4 == InvertAddress(g[5])
        a6 == InvertAddress(g[7])
    IN  /\ g[1] = v1
        /\ g[4] = a4 /\ a4 = g[6] /\ g[6] = a6

IsValueBlock(block) ==
    LET g  == ValueGroups(block)
        v1 == InvertValue(g[2])
        a4 == InvertAddress(g[5])
        a6 == InvertAddress(g[7])
    IN  /\ g[1] = v1 /\ v1 = g[3]
        /\ g[4] = a4 /\ a4 = g[6] /\ g[6] = a6

\* The type pushed to Sector.dataTypes.
BlockType(block) == IF IsValueBlock(block) THEN "V" ELSE "D"

\* ------------------------------------------------------------------------
\* The byte source: ipcMain.handle("read-file")
\* ------------------------------------------------------------------------

\* byte.toString(16).padStart(2, "0").toUpperCase()
ByteToHex(byte) == toUpperCase(PadStart(ToString16(byte), 2))

\* hexArray.join(" "): the two digits of every byte, one space between
\* neighbours.
readFile(fileBuffer) ==
    [k \in 1..(3 * Len(fileBuffer) - (IF Len(fileBuffer) = 0 THEN 0 ELSE 1)) |->
        IF k % 3 = 0 THEN " "
        ELSE ByteToHex(fileBuffer[((k - 1) \div 3) + 1])[k % 3]]

\* ------------------------------------------------------------------------
\* State: one activation record per DumpToJson call
\* ------------------------------------------------------------------------

\* The calls the model follows: the decoder is called once per opened file.
Calls == {1, 2}

VARIABLES
    dump,      \* dump[p]: the argument, [isString, text]
    pc,        \* pc[p]: "entry", "sectors", "blocks" or "done"
    Sectors,   \* Sectors[p]: the chunks of HexString
    i,         \* i[p]: index of the forEach over Sectors
    Blocks,    \* Blocks[p]: the chunks of the current sector
    j,         \* j[p]: index of the forEach over Blocks
    FileJSON,  \* FileJSON[p]: the record under construction
    Sector,    \* Sector[p]: the current sector's record
    outcome,   \* outcome[p]: "pending", "returned", "null" or "TypeError"
    probe,     \* a call of guessUidSize on its own: [sak, atqa, called, ret]
    ui         \* the renderer's file-open pipeline: reads awaited, the
               \* sessionStorage item, messages posted, the page's fileData

vars == <<dump, pc, Sectors, i, Blocks, j, FileJSON, Sector, outcome, probe,
         ui>>

\* A string argument, and an argument that is no string.
Text(s) == [isString |-> TRUE, text |-> s]

NotAString == [isString |-> FALSE, text |-> << >>]

\* ------------------------------------------------------------------------
\* The dumps the model decodes
\* ------------------------------------------------------------------------

\* Manufacturer blocks: SAK 08 / ATQA 04 00 after a 4-byte UID and its BCC;
\* the same with 08 04 00 04 one byte early (no tag at offsets 5..7);
\* SAK 18 / ATQA 44 00 after a 7-byte UID; SAK 88 and SAK 98 variants.
BlkM4 == <<\h01, \h02, \h03, \h04, \h08, \h08, \h04, \h00,
           \hAA, \hBB, \hCC, \hDD, \hEE, \hFF, \h00, \h11>>

BlkMX == <<\h01, \h02, \h03, \h04, \h08, \h04, \h00, \h04,
           \hAA, \hBB, \hCC, \hDD, \hEE, \hFF, \h00, \h11>>

BlkM7 == <<\h04, \h11, \h22, \h33, \h44, \h55, \h66, \h18,
           \h44, \h00, \hC8, \h47, \h00, \h00, \h00, \h01>>

BlkM88 == <<\hDE, \hAD, \hBE, \hEF, \h22, \h88, \h04, \h00,
            \h62, \h63, \h64, \h65, \h66, \h67, \h68, \h69>>

BlkM98 == <<\h04, \hA1, \hB2, \hC3, \hD4, \hE5, \hF6, \h98,
            \h44, \h00, \h10, \h20, \h30, \h40, \h50, \h60>>

\* Sector trailers: the transport configuration; the same access bytes
\* under other keys and another user byte; other access bytes.
BlkT == <<\hFF, \hFF, \hFF, \hFF, \hFF, \hFF, \hFF, \h07, \h80, \h69,
          \hFF, \hFF, \hFF, \hFF, \hFF, \hFF>>

BlkT2 == <<\hA0, \hA1, \hA2, \hA3, \hA4, \hA5, \hFF, \h07, \h80, \h00,
           \hB0, \hB1, \hB2, \hB3, \hB4, \hB5>>

BlkT3 == <<\h00, \h00, \h00, \h00, \h00, \h00, \h78, \h77, \h88, \hC1,
           \h0A, \h1B, \h2C, \h3D, \h4E, \h5F>>

\* The transport trailer with the lower nibble of each access byte
\* changed: F0 08 8F for FF 07 80.
BlkT4 == <<\hFF, \hFF, \hFF, \hFF, \hFF, \hFF, \hF0, \h08, \h8F, \h69,
           \hFF, \hFF, \hFF, \hFF, \hFF, \hFF>>

\* Value blocks (value, ~value, value, addr, ~addr, addr, ~addr).
BlkV == <<\h2A, \h00, \h00, \h00, \hD5, \hFF, \hFF, \hFF,
          \h2A, \h00, \h00, \h00, \h05, \hFA, \h05, \hFA>>

BlkV2 == <<\h10, \h9C, \hE3, \h7F, \hEF, \h63, \h1C, \h80,
           \h10, \h9C, \hE3, \h7F, \hF0, \h0F, \hF0, \h0F>>

\* Plain data: all zero, and a block whose value copies agree while its
\* address copies do not.
BlkD == <<\h00, \h00, \h00, \h00, \h00, \h00, \h00, \h00,
          \h00, \h00, \h00, \h00, \h00, \h00, \h00, \h00>>

BlkD2 == <<\h2A, \h00, \h00, \h00, \hD5, \hFF, \hFF, \hFF,
           \h2A, \h00, \h00, \h00, \h05, \hFA, \h05, \h05>>

\* The blocks a file may hold at block position n (counted from 0).
Catalog(n) ==
    IF n = 0 THEN {BlkM4, BlkMX, BlkM7, BlkM88, BlkM98}
    ELSE IF n % BLOCK_COUNT = BLOCK_COUNT - 1 THEN {BlkT, BlkT3}
    ELSE IF n % 2 = 1 THEN {BlkV, BlkD} ELSE {BlkV2, BlkD2}

\* The files of exactly n whole blocks.
RECURSIVE FilesOfBlocks(_)
FilesOfBlocks(n) ==
    IF n = 0 THEN {<< >>}
    ELSE {f \o b : f \in FilesOfBlocks(n - 1), b \in Catalog(n - 1)}

\* A file may end in a partial block of 6 bytes.
Tails == {<< >>, <<\hA0, \hB1, \hC2, \hD3, \hE4, \hF5>>}

Files ==
    {f \o t : f \in UNION {FilesOfBlocks(n) : n \in 0..MaxBlocks}, t \in Tails}

\* A long well-formed file of n sectors.
RECURSIVE LongFile(_)
LongFile(n) ==
    IF n = 0 THEN << >>
    ELSE IF n = 1 THEN BlkM4 \o BlkV \o BlkD2 \o BlkT
    ELSE LongFile(n - 1) \o BlkD \o BlkV \o BlkV2
         \o (IF n % 2 = 0 THEN BlkT2 ELSE BlkT3)

\* A file of two sectors whose second sector starts with a block that
\* carries a tag (SAK 18 / ATQA 44 00) and another UID.
TaggedSectorFile == LongFile(1) \o BlkM7 \o BlkV \o BlkV2 \o BlkT2

\* The first sector of a long file with the trailer BlkT4.
LowerNibbleFile == BlkM4 \o BlkV \o BlkD2 \o BlkT4

\* Manufacturer blocks whose bytes 5..9, where the two tags are looked
\* for, take every combination of a few values: both SAKs of each tag and
\* another byte, both ATQA low bytes and others.
TagProbeBlocks ==
    {<<\h04, \hA1, \hB2, \hC3, \hD4, b5, b6, b7, b8, b9,
       \h10, \h20, \h30, \h40, \h50, \h60>> :
        b5 \in {\h08, \h88, \h22}, b6 \in {\h04, \h24},
        b7 \in {\h00, \h18, \h98}, b8 \in {\h44, \h04}, b9 \in {\h00, \h01}}

\* A file with its block n (from 0) replaced by block b.
WithBlock(f, n, b) ==
    [k \in 1..Len(f) |->
        IF (k - 1) \div BLOCK_SIZE = n THEN b[((k - 1) % BLOCK_SIZE) + 1] ELSE f[k]]

\* A file of three sectors with one block replaced by another well-formed
\* block of its kind: the manufacturer block, a data block or the trailer
\* of each sector.
OneSectorVariants ==
    {WithBlock(LongFile(3), c[1], c[2]) :
        c \in {<<0, BlkM7>>, <<1, BlkD>>, <<3, BlkT3>>,
                <<4, BlkV2>>, <<5, BlkD>>, <<7, BlkT>>,
                <<8, BlkM7>>, <<11, BlkT>>}}

\* The hexadecimal text of a file without separators.
PlainText(bytes) ==
    [k \in 1..(2 * Len(bytes)) |-> ByteToHex(bytes[(k + 1) \div 2])[2 - (k % 2)]]

\* The same in lower case, a line break after every block and a tab in the
\* middle of the first byte.
LowerText(bytes) ==
    LET lower(c) == IF \E d \in 1..16 : Digits[d] = c
                    THEN LowerDigits[CHOOSE d \in 1..16 : Digits[d] = c] ELSE c
        hex(b)   == [k \in 1..2 |-> lower(ByteToHex(b)[k])]
        body     == Join([k \in 1..Len(bytes) |->
                        hex(bytes[k]) \o (IF k % BLOCK_SIZE = 0 THEN <<"\n">> ELSE << >>)])
    IN  IF Len(body) = 0 THEN <<" ">> ELSE <<body[1], "\t">> \o Tail(body)

\* A text with its character at position k (from 1) replaced by c, when it
\* has one.
Replaced(s, k, c) == IF k <= Len(s) THEN [s EXCEPT ![k] = c] ELSE s

\* The texts given to the decoder for every file: as the file reader
\* returns it, and in lower case with other whitespace.
TextsOf(bytes) == {readFile(bytes), LowerText(bytes)}

\* The texts given to the decoder for a standard file: bare, without its
\* last character, and with a character that is no hexadecimal digit
\* inside the first block, inside the second block and inside the first
\* trailer.
DamagedTextsOf(bytes) ==
    LET plain == PlainText(bytes)
    IN  {plain, SubSeq(plain, 1, Len(plain) - 1),
         Replaced(plain, 4, "G"), Replaced(plain, 35, "g"),
         Replaced(plain, 110, "G")}

\* The texts given to the decoder for a standard file with one character
\* of its first block replaced: the second digit of byte 5 and of byte 7,
\* where the tag is looked for, and of byte 8, and the first digit of
\* byte 8 replaced by a sign.
DamagedBlock0TextsOf(bytes) ==
    LET plain == PlainText(bytes)
    IN  {Replaced(plain, 12, "G"), Replaced(plain, 16, "G"),
         Replaced(plain, 18, "G"), Replaced(plain, 17, "-")}

\* The standard files: the first blocks of a long file, with each tail.
StandardFiles ==
    {SubSeq(LongFile((MaxBlocks \div BLOCK_COUNT) + 1), 1, BLOCK_SIZE * n) \o t :
        n \in 0..MaxBlocks, t \in Tails}

\* The text with its whitespace removed and its letters in upper case.
Canonical(s) ==
    LET up(c) == CASE c = "a" -> "A" [] c = "b" -> "B" [] c = "c" -> "C"
                   [] c = "d" -> "D" [] c = "e" -> "E" [] c = "f" -> "F"
                   [] c = "g" -> "G" [] c = "x" -> "X" [] OTHER -> c
        kept  == SelectSeq(s, LAMBDA c : c # " " /\ c # "\n" /\ c # "\t")
    IN  [k \in 1..Len(kept) |-> up(kept[k])]

\* x with bit b (0 = least significant) inverted.
FlipBit(x, b) == Xor8(x, 2 ^ b)

\* A file with bit n of its byte k (from 0) inverted.
FlipFileBit(bytes, k, n) == [bytes EXCEPT ![k + 1] = FlipBit(@, n)]

\* The file whose second and third blocks, both value blocks, are compared
\* with each of their one-bit neighbours.
FlipBases == {BlkM4 \o BlkV \o BlkV2 \o BlkT}

\* The pairs of arguments of the two calls: a text and its canonical form;
\* a dump of two or three sectors, as the file reader returns it, twice; a
\* dump of SECTOR_COUNT sectors or more next to the empty text; a dump
\* whose second sector starts with a tagged block, twice; a dump and a
\* one-bit neighbour; a sector next to the same sector with other lower
\* nibbles in its access bytes; a single block with chosen bytes where the
\* tags are looked for, next to a block with SAK 98; a dump of three
\* sectors next to the same dump with one block replaced; a value that is
\* no string next to the empty text.
InputPairs ==
    {<<Text(s), Text(Canonical(s))>> :
        s \in UNION ({TextsOf(f) : f \in Files}
                     \cup {DamagedTextsOf(f) : f \in StandardFiles}
                     \cup {DamagedBlock0TextsOf(f) : f \in StandardFiles})}
    \cup {<<Text(readFile(LongFile(n))), Text(readFile(LongFile(n)))>> :
            n \in 2..3}
    \cup {<<Text(readFile(LongFile(n))), Text(<< >>)>> :
            n \in SECTOR_COUNT..MaxLongSectors}
    \cup {<<Text(readFile(TaggedSectorFile)), Text(readFile(TaggedSectorFile))>>}
    \cup {<<Text(PlainText(f)), Text(PlainText(FlipFileBit(f, k, n)))>> :
            f \in FlipBases, k \in BLOCK_SIZE..(3 * BLOCK_SIZE - 1), n \in 0..7}
    \cup {<<Text(readFile(LongFile(1))), Text(readFile(LowerNibbleFile))>>}
    \cup {<<Text(PlainText(b)), Text(PlainText(BlkM98))>> : b \in TagProbeBlocks}
    \cup {<<Text(readFile(LongFile(3))), Text(readFile(f))>> : f \in OneSectorVariants}
    \cup {<<NotAString, Text(<< >>)>>, <<Text(<<" ", "\n">>), NotAString>>}

\* sessionStorage.getItem('fileJSON') when nothing was stored, and
\* JSON.parse of it: null.
NoItem == [null |-> TRUE, of |-> 0, json |-> InitFileJSON]

\* The renderer before any file was selected: nothing awaited, stored,
\* posted or shown.  selected, rejections, last and handled are kept for
\* the properties: the number of file-selected events so far, the number
\* of errors no handler caught, how the last readFile callback ended, and
\* which message the last fileLoaded handler took with which item.
UiIdle ==
    [selected   |-> 0,
     reads      |-> << >>,
     fileJSON   |-> NoItem,
     messages   |-> << >>,
     fileData   |-> NoItem,
     rejections |-> 0,
     last       |-> "none",
     handled    |-> [msg |-> 0, saw |-> 0]]

\* No separate call of guessUidSize is followed.
NoProbe == [sak |-> JsNull, atqa |-> NullArr, called |-> FALSE, ret |-> JsNull]

Init ==
    /\ dump \in InputPairs
    /\ pc = [p \in Calls |-> "entry"]
    /\ Sectors = [p \in Calls |-> << >>]
    /\ i = [p \in Calls |-> 0]
    /\ Blocks = [p \in Calls |-> << >>]
    /\ j = [p \in Calls |-> 0]
    /\ FileJSON = [p \in Calls |-> InitFileJSON]
    /\ Sector = [p \in Calls |-> InitSector]
    /\ outcome = [p \in Calls |-> "pending"]
    /\ probe = NoProbe
    /\ ui = UiIdle

\* JavaScript runs a synchronous call to completion: a call starts only
\* after the calls before it have ended.
Running(p) == \A q \in Calls : q < p => pc[q] = "done"

\* EnterStep without the typeof test: every argument is normalized and
\* split.
EnterStepWithoutTypeCheck(p) ==
    /\ pc[p] = "entry"
    /\ FileJSON' = [FileJSON EXCEPT ![p] = InitFileJSON]
    /\ Sectors' = [Sectors EXCEPT
                      ![p] = Chunks(Normalize(dump[p].text), SECTOR_SIZE * 2)]
    /\ pc' = [pc EXCEPT ![p] = "sectors"]
    /\ UNCHANGED <<outcome, ui, probe, dump, i, Blocks, j, Sector>>

\* Lines 30-60: the type check, the placeholder record, normalisation and
\* the split into sectors.
EnterStep(p) ==
    /\ pc[p] = "entry"
    /\ IF ~dump[p].isString
       THEN /\ pc' = [pc EXCEPT ![p] = "done"]
            /\ outcome' = [outcome EXCEPT ![p] = "null"]
            /\ UNCHANGED <<Sectors, FileJSON>>
       ELSE /\ FileJSON' = [FileJSON EXCEPT ![p] = InitFileJSON]
            /\ Sectors' = [Sectors EXCEPT
                              ![p] = Chunks(Normalize(dump[p].text), SECTOR_SIZE * 2)]
            /\ pc' = [pc EXCEPT ![p] = "sectors"]
            /\ UNCHANGED outcome
    /\ UNCHANGED <<ui, probe, dump, i, Blocks, j, Sector>>

\* SectorBeginStep with the Sector object built once, outside the sector
\* callback: a sector goes on from the record of the sector before it.
SectorBeginStepKeepingSector(p) ==
    /\ pc[p] = "sectors"
    /\ i[p] < Len(Sectors[p])
    /\ Blocks' = [Blocks EXCEPT ![p] = Chunks(Sectors[p][i[p] + 1], BLOCK_SIZE * 2)]
    /\ j' = [j EXCEPT ![p] = 0]
    /\ pc' = [pc EXCEPT ![p] = "blocks"]
    /\ UNCHANGED <<ui, probe, dump, Sectors, i, FileJSON, outcome, Sector>>

\* SectorBeginStep with one Sector object for all calls: starting a
\* sector resets it for every call.
SectorBeginStepSharedSector(p) ==
    /\ pc[p] = "sectors"
    /\ i[p] < Len(Sectors[p])
    /\ Sector' = [q \in Calls |-> InitSector]
    /\ Blocks' = [Blocks EXCEPT ![p] = Chunks(Sectors[p][i[p] + 1], BLOCK_SIZE * 2)]
    /\ j' = [j EXCEPT ![p] = 0]
    /\ pc' = [pc EXCEPT ![p] = "blocks"]
    /\ UNCHANGED <<ui, probe, dump, Sectors, i, FileJSON, outcome>>

\* Lines 65-83: the sector callback starts: a fresh Sector, the split into
\* blocks.
SectorBeginStep(p) ==
    /\ pc[p] = "sectors"
    /\ i[p] < Len(Sectors[p])
    /\ Sector' = [Sector EXCEPT ![p] = InitSector]
    /\ Blocks' = [Blocks EXCEPT ![p] = Chunks(Sectors[p][i[p] + 1], BLOCK_SIZE * 2)]
    /\ j' = [j EXCEPT ![p] = 0]
    /\ pc' = [pc EXCEPT ![p] = "blocks"]
    /\ UNCHANGED <<ui, probe, dump, Sectors, i, FileJSON, outcome>>

\* IsManufacturerBlock looking at the block index alone.
IsManufacturerBlockOfAnySector(sectorIndex, blockIndex) == blockIndex = 0

\* The test i == 0 && j == 0 of line 122.
IsManufacturerBlock(sectorIndex, blockIndex) == sectorIndex = 0 /\ blockIndex = 0

\* An uncaught TypeError leaves DumpToJson.
Throw(p) ==
    /\ pc' = [pc EXCEPT ![p] = "done"]
    /\ outcome' = [outcome EXCEPT ![p] = "TypeError"]

\* Lines 88-121: the block at index BLOCK_COUNT - 1 is the sector trailer.
TrailerBlockStep(p) ==
    LET block == Blocks[p][j[p] + 1]
    IN  /\ pc[p] = "blocks"
        /\ j[p] < Len(Blocks[p])
        /\ j[p] = BLOCK_COUNT - 1
        /\ IF ~MatchesHex(block, 32)
           THEN Throw(p) /\ UNCHANGED <<Sector, j>>
           ELSE /\ Sector' = [Sector EXCEPT ![p].sectorTrailer =
                                 DecodeTrailer(Sector[p].sectorTrailer, block)]
                /\ j' = [j EXCEPT ![p] = @ + 1]
                /\ UNCHANGED <<pc, outcome>>
        /\ UNCHANGED <<ui, probe, dump, Sectors, i, Blocks, FileJSON>>

\* Lines 122-153: the first block of the first sector.
ManufacturerBlockStep(p) ==
    LET block == Blocks[p][j[p] + 1]
        dec   == DecodeManufacturer(block)
    IN  /\ pc[p] = "blocks"
        /\ j[p] < Len(Blocks[p])
        /\ j[p] # BLOCK_COUNT - 1
        /\ IsManufacturerBlock(i[p], j[p])
        /\ IF dec.throws
           THEN Throw(p) /\ UNCHANGED <<FileJSON, j>>
           ELSE /\ FileJSON' = [FileJSON EXCEPT ![p].manifacturer = dec.m]
                /\ j' = [j EXCEPT ![p] = @ + 1]
                /\ UNCHANGED <<pc, outcome>>
        /\ UNCHANGED <<ui, probe, dump, Sectors, i, Blocks, Sector>>

\* Lines 154-206: every other block is a data block or a value block.
DataBlockStep(p) ==
    LET block == Blocks[p][j[p] + 1]
    IN  /\ pc[p] = "blocks"
        /\ j[p] < Len(Blocks[p])
        /\ j[p] # BLOCK_COUNT - 1
        /\ ~IsManufacturerBlock(i[p], j[p])
        /\ IF ~MatchesHex(block, 32)
           THEN Throw(p) /\ UNCHANGED <<Sector, j>>
           ELSE /\ Sector' = [Sector EXCEPT
                                 ![p].dataTypes = Append(@, BlockType(block)),
                                 ![p].dataValues = Append(@, Uint8Array(ParseBytes(block)))]
                /\ j' = [j EXCEPT ![p] = @ + 1]
                /\ UNCHANGED <<pc, outcome>>
        /\ UNCHANGED <<ui, probe, dump, Sectors, i, Blocks, FileJSON>>

\* SectorEnd keeping no more than the SECTOR_COUNT sectors of a 1K card.
SectorEndUpTo16(p) ==
    /\ Running(p)
    /\ pc[p] = "blocks"
    /\ j[p] = Len(Blocks[p])
    /\ FileJSON' = [FileJSON EXCEPT ![p].sectors =
                       IF Len(@) < SECTOR_COUNT THEN Append(@, Sector[p]) ELSE @]
    /\ i' = [i EXCEPT ![p] = @ + 1]
    /\ pc' = [pc EXCEPT ![p] = "sectors"]
    /\ UNCHANGED <<ui, probe, dump, Sectors, Blocks, j, Sector, outcome>>

\* Lines 207-211: the blocks are done; the sector is pushed.
SectorEndStep(p) ==
    /\ pc[p] = "blocks"
    /\ j[p] = Len(Blocks[p])
    /\ FileJSON' = [FileJSON EXCEPT ![p].sectors = Append(@, Sector[p])]
    /\ i' = [i EXCEPT ![p] = @ + 1]
    /\ pc' = [pc EXCEPT ![p] = "sectors"]
    /\ UNCHANGED <<ui, probe, dump, Sectors, Blocks, j, Sector, outcome>>

\* Lines 213-214: return FileJSON.
ReturnStep(p) ==
    /\ pc[p] = "sectors"
    /\ i[p] = Len(Sectors[p])
    /\ pc' = [pc EXCEPT ![p] = "done"]
    /\ outcome' = [outcome EXCEPT ![p] = "returned"]
    /\ UNCHANGED <<ui, probe, dump, Sectors, i, Blocks, j, FileJSON, Sector>>

\* The steps of a call as the program runs them: a call to completion
\* before the next one starts.
Enter(p) == Running(p) /\ EnterStep(p)

SectorBegin(p) == Running(p) /\ SectorBeginStep(p)

TrailerBlock(p) == Running(p) /\ TrailerBlockStep(p)

ManufacturerBlock(p) == Running(p) /\ ManufacturerBlockStep(p)

DataBlock(p) == Running(p) /\ DataBlockStep(p)

SectorEnd(p) == Running(p) /\ SectorEndStep(p)

Return(p) == Running(p) /\ ReturnStep(p)

Next ==
    \/ \E p \in Calls : Enter(p)
    \/ \E p \in Calls : SectorBegin(p)
    \/ \E p \in Calls : TrailerBlock(p)
    \/ \E p \in Calls : ManufacturerBlock(p)
    \/ \E p \in Calls : DataBlock(p)
    \/ \E p \in Calls : SectorEnd(p)
    \/ \E p \in Calls : Return(p)

Spec == Init /\ [][Next]_vars

\* ------------------------------------------------------------------------
\* guessUidSize called on its own
\* ------------------------------------------------------------------------

\* SAK values: absent, and bytes on both sides of the two the function
\* tests for.
ProbeSaks == {JsNull} \cup {Num(n) : n \in {\h00, \h08, \h09, \h18, \h19, \h20, \h88, \h98}}

\* ATQA values: absent, and every first byte with a second byte.
ProbeAtqas ==
    {NullArr} \cup {Arr(<<Num(a), Num(b)>>) : a \in 0..255, b \in {\h00, \h44}}

InitGuess ==
    /\ dump = [p \in Calls |-> NotAString]
    /\ pc = [p \in Calls |-> "done"]
    /\ Sectors = [p \in Calls |-> << >>]
    /\ i = [p \in Calls |-> 0]
    /\ Blocks = [p \in Calls |-> << >>]
    /\ j = [p \in Calls |-> 0]
    /\ FileJSON = [p \in Calls |-> InitFileJSON]
    /\ Sector = [p \in Calls |-> InitSector]
    /\ outcome = [p \in Calls |-> "null"]
    /\ \E sak \in ProbeSaks, atqa \in ProbeAtqas :
           probe = [sak |-> sak, atqa |-> atqa, called |-> FALSE, ret |-> JsNull]
    /\ ui = UiIdle

\* Lines 236-265: the call returns, or throws.
Guess ==
    /\ ~probe.called
    /\ probe' = [probe EXCEPT !.called = TRUE,
                              !.ret = guessUidSize(probe.sak, probe.atqa)]
    /\ UNCHANGED <<dump, pc, Sectors, i, Blocks, j, FileJSON, Sector, outcome, ui>>

NextGuess == Guess

SpecGuess == InitGuess /\ [][NextGuess]_vars

\* ------------------------------------------------------------------------
\* Two calls whose steps interleave
\* ------------------------------------------------------------------------

\* The arguments of the interleaved calls: no string, the empty text, and
\* the file reader's text of a dump of two sectors, of a dump whose second
\* sector starts with a tagged block, of a dump with SAK 98 and a fifth
\* block, of a sector followed by 6 bytes, and of a block without a tag.
InterleavedArgs ==
    {NotAString, Text(<< >>)}
    \cup {Text(readFile(f)) :
            f \in {LongFile(2), TaggedSectorFile,
                   BlkM98 \o BlkV \o BlkD2 \o BlkT3 \o BlkD,
                   LongFile(1) \o <<\hA0, \hB1, \hC2, \hD3, \hE4, \hF5>>,
                   BlkMX}}

InitInterleaved ==
    /\ dump \in [Calls -> InterleavedArgs]
    /\ pc = [p \in Calls |-> "entry"]
    /\ Sectors = [p \in Calls |-> << >>]
    /\ i = [p \in Calls |-> 0]
    /\ Blocks = [p \in Calls |-> << >>]
    /\ j = [p \in Calls |-> 0]
    /\ FileJSON = [p \in Calls |-> InitFileJSON]
    /\ Sector = [p \in Calls |-> InitSector]
    /\ outcome = [p \in Calls |-> "pending"]
    /\ probe = NoProbe
    /\ ui = UiIdle

\* Any call that has not ended takes its next step.
NextInterleaved ==
    \/ \E p \in Calls : EnterStep(p)
    \/ \E p \in Calls : SectorBeginStep(p)
    \/ \E p \in Calls : TrailerBlockStep(p)
    \/ \E p \in Calls : ManufacturerBlockStep(p)
    \/ \E p \in Calls : DataBlockStep(p)
    \/ \E p \in Calls : SectorEndStep(p)
    \/ \E p \in Calls : ReturnStep(p)

SpecInterleaved == InitInterleaved /\ [][NextInterleaved]_vars

\* ------------------------------------------------------------------------
\* DumpToJson as a function of its argument: one call run on its own
\* ------------------------------------------------------------------------

\* One turn of the callback of Blocks.forEach.  acc is [throws,
\* manifacturer, Sector].
DecodeBlockAlone(acc, block, sectorIndex, blockIndex) ==
    IF blockIndex = BLOCK_COUNT - 1
    THEN IF ~MatchesHex(block, 32)
         THEN [acc EXCEPT !.throws = TRUE]
         ELSE [acc EXCEPT !.Sector.sectorTrailer = DecodeTrailer(@, block)]
    ELSE IF IsManufacturerBlock(sectorIndex, blockIndex)
    THEN IF DecodeManufacturer(block).throws
         THEN [acc EXCEPT !.throws = TRUE]
         ELSE [acc EXCEPT !.manifacturer = DecodeManufacturer(block).m]
    ELSE IF ~MatchesHex(block, 32)
         THEN [acc EXCEPT !.throws = TRUE]
         ELSE [acc EXCEPT !.Sector.dataTypes = Append(@, BlockType(block)),
                          !.Sector.dataValues = Append(@, Uint8Array(ParseBytes(block)))]

\* Blocks.forEach from index blockIndex on, up to the first throw.
RECURSIVE DecodeBlocksAlone(_, _, _, _)
DecodeBlocksAlone(acc, blocks, sectorIndex, blockIndex) ==
    IF acc.throws \/ blockIndex >= Len(blocks) THEN acc
    ELSE DecodeBlocksAlone(
             DecodeBlockAlone(acc, blocks[blockIndex + 1], sectorIndex, blockIndex),
             blocks, sectorIndex, blockIndex + 1)

\* Sectors.forEach from index sectorIndex on, up to the first throw.  file
\* is [throws, FileJSON].
RECURSIVE DecodeSectorsAlone(_, _, _)
DecodeSectorsAlone(file, sectors, sectorIndex) ==
    IF file.throws \/ sectorIndex >= Len(sectors) THEN file
    ELSE LET acc == DecodeBlocksAlone(
                        [throws |-> FALSE,
                         manifacturer |-> file.FileJSON.manifacturer,
                         Sector |-> InitSector],
                        Chunks(sectors[sectorIndex + 1], BLOCK_SIZE * 2),
                        sectorIndex, 0)
         IN  DecodeSectorsAlone(
                 IF acc.throws
                 THEN [file EXCEPT !.throws = TRUE]
                 ELSE [throws |-> FALSE,
                       FileJSON |-> [manifacturer |-> acc.manifacturer,
                                     sectors |-> Append(file.FileJSON.sectors,
                                                        acc.Sector)]],
                 sectors, sectorIndex + 1)

\* The outcome of DumpToJson(d) and, when it returns, the record.
DumpToJsonAlone(d) ==
    IF ~d.isString THEN [outcome |-> "null", FileJSON |-> InitFileJSON]
    ELSE LET file == DecodeSectorsAlone(
                         [throws |-> FALSE, FileJSON |-> InitFileJSON],
                         Chunks(Normalize(d.text), SECTOR_SIZE * 2), 0)
         IN  [outcome  |-> IF file.throws THEN "TypeError" ELSE "returned",
              FileJSON |-> file.FileJSON]

\* ------------------------------------------------------------------------
\* The file-open pipeline of the renderer: file-selected, readFile,
\* DumpToJson, sessionStorage, fileLoaded
\* ------------------------------------------------------------------------

\* The number of files selected in one run.
MaxSelections == 3

\* The files the user may select: a whole sector, a manufacturer block with
\* a data block, and a block without a tag, on which DumpToJson throws.
OpenableFiles == {LongFile(1), BlkM7 \o BlkV, BlkMX}

\* The decoder variables stand still while the pipeline runs: DumpToJson
\* is followed as one call inside the readFile callback.
InitOpen ==
    /\ dump = [p \in Calls |-> NotAString]
    /\ pc = [p \in Calls |-> "done"]
    /\ Sectors = [p \in Calls |-> << >>]
    /\ i = [p \in Calls |-> 0]
    /\ Blocks = [p \in Calls |-> << >>]
    /\ j = [p \in Calls |-> 0]
    /\ FileJSON = [p \in Calls |-> InitFileJSON]
    /\ Sector = [p \in Calls |-> InitSector]
    /\ outcome = [p \in Calls |-> "null"]
    /\ probe = NoProbe
    /\ ui = UiIdle

Decoder == <<dump, pc, Sectors, i, Blocks, j, FileJSON, Sector, outcome, probe>>

\* The main process sends file-selected with the path of file f; the
\* listener of the HotBar finds filePaths.length > 0 and calls
\* readFile(filePaths[0]), whose reply is awaited.
FileSelected(f) ==
    /\ ui.selected < MaxSelections
    /\ ui' = [ui EXCEPT !.selected = @ + 1,
                         !.reads = Append(@, [of |-> ui.selected + 1, file |-> f])]
    /\ UNCHANGED Decoder

\* FileRead without sessionStorage.setItem: the message is posted and the
\* item is left as it was.
FileReadWithoutStore ==
    /\ Len(ui.reads) > 0
    /\ \E read \in {Head(ui.reads)} :
       \E dec \in {DumpToJsonAlone(Text(readFile(read.file)))} :
           IF dec.outcome = "TypeError"
           THEN ui' = [ui EXCEPT !.reads = Tail(@),
                                 !.rejections = @ + 1,
                                 !.last = "threw"]
           ELSE ui' = [ui EXCEPT
                          !.reads = Tail(@),
                          !.messages = Append(@, [of |-> read.of,
                                                  data |-> dec.FileJSON]),
                          !.last = "stored"]
    /\ UNCHANGED Decoder

\* The reply of the oldest readFile arrives (the main process answers
\* read-file with readFileSync, one request after the other) and the
\* .then callback runs to its end: DumpToJson on the text; when it throws,
\* the promise is rejected and nothing handles it; otherwise the record is
\* stored under 'fileJSON' and then the fileLoaded message is posted.
FileRead ==
    /\ Len(ui.reads) > 0
    /\ \E read \in {Head(ui.reads)} :
       \E dec \in {DumpToJsonAlone(Text(readFile(read.file)))} :
           IF dec.outcome = "TypeError"
           THEN ui' = [ui EXCEPT !.reads = Tail(@),
                                 !.rejections = @ + 1,
                                 !.last = "threw"]
           ELSE ui' = [ui EXCEPT
                          !.reads = Tail(@),
                          !.fileJSON = [null |-> FALSE, of |-> read.of,
                                        json |-> dec.FileJSON],
                          !.messages = Append(@, [of |-> read.of,
                                                  data |-> dec.FileJSON]),
                          !.last = "stored"]
    /\ UNCHANGED Decoder

\* The oldest posted message is delivered to handleFileLoad of the page:
\* its type is 'fileLoaded', the handler parses the item 'fileJSON' of
\* sessionStorage and sets fileData to it; the data of the message is not
\* read.
HandleFileLoad ==
    /\ Len(ui.messages) > 0
    /\ ui' = [ui EXCEPT !.messages = Tail(@),
                         !.fileData = ui.fileJSON,
                         !.handled = [msg |-> Head(ui.messages).of,
                                      saw |-> ui.fileJSON.of]]
    /\ UNCHANGED Decoder

NextOpen ==
    \/ \E f \in OpenableFiles : FileSelected(f)
    \/ FileRead
    \/ HandleFileLoad

SpecOpen == InitOpen /\ [][NextOpen]_vars

\* ------------------------------------------------------------------------
\* Vocabulary of the properties
\* ------------------------------------------------------------------------

Done(p) == pc[p] = "done"

Returned(p) == Done(p) /\ outcome[p] = "returned"

\* The normalized hexadecimal text of the argument of call p.
HexOf(p) == Canonical(dump[p].text)

\* The value of the n-th byte (from 0) of a hexadecimal text.
NibbleOf(c) == CHOOSE v \in 0..15 : Digits[v + 1] = c

ByteOf(h, n) == 16 * NibbleOf(h[2 * n + 1]) + NibbleOf(h[2 * n + 2])

BytesOf(h, from, n) == [k \in 1..n |-> ByteOf(h, from + k - 1)]

AllHex(h) == \A k \in 1..Len(h) : \E v \in 0..15 : Digits[v + 1] = h[k]

\* The s-th sector (from 1) of a normalized text: 128 characters, fewer at
\* the end of the text.
SectorText(h, s) ==
    SubSeq(h, 128 * (s - 1) + 1, IF 128 * s < Len(h) THEN 128 * s ELSE Len(h))

\* The number of sectors a normalized text holds.
SectorCount(h) == (Len(h) + 127) \div 128

\* A sector text that reaches block position 3.
HasTrailer(sec) == Len(sec) > 96

\* ------------------------------------------------------------------------
\* C1
\* ------------------------------------------------------------------------

\* C1 as stated: a call on a string ends in a failure or in a record none
\* of whose parts still holds its initial placeholder value.
C1_NoPlaceholderReturned ==
    \A p \in Calls :
        Done(p) /\ dump[p].isString =>
            /\ outcome[p] \in {"returned", "TypeError"}
            /\ outcome[p] = "returned" =>
                /\ FileJSON[p].manifacturer # InitManifacturer
                /\ \A s \in 1..Len(FileJSON[p].sectors) :
                       FileJSON[p].sectors[s].sectorTrailer # InitSectorTrailer

\* C1 (amended): a call on a string ends in a failure or in a returned
\* record that holds one sector per sector of the dump; its manufacturer
\* record is decoded from block 0 when the dump is not empty, and every
\* sector that reaches block position 3 has keyA, keyB, userdata and
\* unParsed equal to the bytes of that block and 4 parsed entries.  The
\* manufacturer record of an empty dump and the trailer of a last sector
\* of fewer than 4 blocks keep their initial placeholder values.
C1_ReturnedIsDecodedOrPlaceholder ==
    \A p \in Calls :
        Done(p) /\ dump[p].isString =>
            /\ outcome[p] \in {"returned", "TypeError"}
            /\ outcome[p] = "returned" =>
                LET h == HexOf(p)
                    R == FileJSON[p]
                IN  /\ Len(R.sectors) = SectorCount(h)
                    /\ Len(h) = 0 => R = InitFileJSON
                    /\ Len(h) > 0 =>
                        /\ R.manifacturer # InitManifacturer
                        /\ ~R.manifacturer.sak.null /\ ~R.manifacturer.ataq.null
                        /\ AllHex(SubSeq(h, 1, 8)) =>
                               R.manifacturer.nuid = BytesOf(h, 0, 4)
                    /\ \A s \in 1..Len(R.sectors) :
                        LET sec == SectorText(h, s)
                            st  == R.sectors[s].sectorTrailer
                        IN  IF HasTrailer(sec)
                            THEN /\ st.keyA = BytesOf(sec, 48, 6)
                                 /\ st.accessConditions.unParsed = BytesOf(sec, 54, 3)
                                 /\ st.userdata = BytesOf(sec, 57, 1)
                                 /\ st.keyB = BytesOf(sec, 58, 6)
                                 /\ Len(st.accessConditions.parsed) = 4
                            ELSE st = InitSectorTrailer

\* A returned record whose first sector has a decoded trailer and whose
\* second, shorter sector keeps the placeholder trailer.
C1_Witness ==
    \E p \in Calls :
        /\ Returned(p)
        /\ Len(FileJSON[p].sectors) = 2
        /\ FileJSON[p].sectors[1].sectorTrailer # InitSectorTrailer
        /\ FileJSON[p].sectors[2].sectorTrailer = InitSectorTrailer
        /\ FileJSON[p].manifacturer # InitManifacturer

\* ------------------------------------------------------------------------
\* C2
\* ------------------------------------------------------------------------

\* C2: a dump of n * 64 bytes (n * 128 hexadecimal characters) that decodes
\* without failure gives exactly n sectors, for every n >= 0, also n > 16.
C2_SectorCountIsLengthOver64 ==
    \A p \in Calls :
        Returned(p) /\ Len(HexOf(p)) % (2 * 64) = 0 =>
            Len(FileJSON[p].sectors) = Len(HexOf(p)) \div (2 * 64)

\* A returned record of more than 16 sectors.
C2_Witness ==
    \E p \in Calls :
        /\ Returned(p)
        /\ Len(HexOf(p)) % (2 * 64) = 0
        /\ Len(FileJSON[p].sectors) > 16

\* ------------------------------------------------------------------------
\* C3
\* ------------------------------------------------------------------------

\* The hexadecimal text of a byte array, two upper-case digits per byte.
HexText(bytes) ==
    [k \in 1..(2 * Len(bytes)) |->
        IF k % 2 = 1 THEN Digits[(bytes[(k + 1) \div 2] \div 16) + 1]
        ELSE Digits[(bytes[k \div 2] % 16) + 1]]

\* C3: for every decoded sector whose block at position 3 is 32
\* hexadecimal characters, hex(keyA) ++ hex(unParsed) ++ hex(userdata) ++
\* hex(keyB), of 6, 3, 1 and 6 bytes, is that block of the normalized text.
C3_TrailerRoundTrip ==
    \A p \in Calls :
        dump[p].isString /\ Len(FileJSON[p].sectors) > 0 =>
            LET h == HexOf(p)
            IN  \A s \in 1..Len(FileJSON[p].sectors) :
                LET sec == SectorText(h, s)
                    st  == FileJSON[p].sectors[s].sectorTrailer
                IN  Len(sec) = 128 /\ AllHex(SubSeq(sec, 97, 128)) =>
                        /\ Len(st.keyA) = 6 /\ Len(st.keyB) = 6
                        /\ Len(st.accessConditions.unParsed) = 3
                        /\ Len(st.userdata) = 1
                        /\ HexText(st.keyA) \o HexText(st.accessConditions.unParsed)
                               \o HexText(st.userdata) \o HexText(st.keyB)
                           = SubSeq(sec, 97, 128)

\* The trailer FFFFFFFFFFFF FF0780 69 FFFFFFFFFFFF decoded.
C3_Witness ==
    \E p \in Calls :
        \E s \in 1..Len(FileJSON[p].sectors) :
            LET st == FileJSON[p].sectors[s].sectorTrailer
            IN  /\ st.keyA = <<255, 255, 255, 255, 255, 255>>
                /\ st.accessConditions.unParsed = <<255, 7, 128>>
                /\ st.userdata = <<105>>
                /\ st.keyB = <<255, 255, 255, 255, 255, 255>>
                /\ SubSeq(SectorText(HexOf(p), s), 97, 128)
                     = PlainText(BlkT)

\* ------------------------------------------------------------------------
\* C4
\* ------------------------------------------------------------------------

\* The MIFARE value-block layout on 16 bytes b[1..16]: b[1..4] =
\* NOT b[5..8] = b[9..12] and b[13] = NOT b[14] = b[15] = NOT b[16].
ValueLayout(b) ==
    /\ \A k \in 1..4 : b[k] = 255 - b[k + 4] /\ b[k] = b[k + 8]
    /\ b[13] = 255 - b[14] /\ b[13] = b[15] /\ b[13] = 255 - b[16]

\* The block (from 1) of a sector text.
BlockText(sec, b) ==
    SubSeq(sec, 32 * (b - 1) + 1, IF 32 * b < Len(sec) THEN 32 * b ELSE Len(sec))

\* The sector records call p has built: those pushed and the current one.
SectorRecords(p) ==
    {FileJSON[p].sectors[s] : s \in 1..Len(FileJSON[p].sectors)} \cup {Sector[p]}

\* C4: a data block is typed "V" exactly when its 16 bytes have the value
\* layout, and "D" in every other case; a block of 32 hexadecimal
\* characters at a data position never makes the call fail.
C4_ValueIffLayout ==
    \A p \in Calls :
        /\ \A rec \in SectorRecords(p) :
              /\ Len(rec.dataTypes) = Len(rec.dataValues)
              /\ \A d \in 1..Len(rec.dataTypes) :
                    /\ Len(rec.dataValues[d]) = 16
                    /\ rec.dataTypes[d] =
                           IF ValueLayout(rec.dataValues[d]) THEN "V" ELSE "D"
        /\ outcome[p] = "TypeError" /\ j[p] # 3 /\ ~(i[p] = 0 /\ j[p] = 0) =>
              LET block == BlockText(SectorText(HexOf(p), i[p] + 1), j[p] + 1)
              IN  ~(Len(block) = 32 /\ AllHex(block))

\* A returned record holding a value block and the plain block that
\* differs from one only in its last address copy.
C4_Witness ==
    \E p \in Calls :
        /\ Returned(p)
        /\ \E rec \in SectorRecords(p) :
              \E d, e \in 1..Len(rec.dataTypes) :
                  /\ rec.dataTypes[d] = "V" /\ rec.dataValues[d] = BlkV
                  /\ rec.dataTypes[e] = "D" /\ rec.dataValues[e] = BlkD2

\* ------------------------------------------------------------------------
\* C5
\* ------------------------------------------------------------------------

\* Byte y is byte x with exactly one of its 8 bits inverted.
OneBitOfByte(x, y) ==
    \E n \in 0..7 :
        y = IF (x \div (2 ^ n)) % 2 = 1 THEN x - 2 ^ n ELSE x + 2 ^ n

\* Block b is block a with exactly one of its 128 bits inverted.
OneBitApart(a, b) ==
    /\ Len(a) = 16 /\ Len(b) = 16
    /\ Cardinality({k \in 1..16 : a[k] # b[k]}) = 1
    /\ \A k \in 1..16 : a[k] # b[k] => OneBitOfByte(a[k], b[k])

\* The data blocks of the two calls' records, each with its type.
TypedBlocks ==
    UNION {{[v |-> rec.dataValues[d], type |-> rec.dataTypes[d]] :
                d \in 1..Len(rec.dataTypes)} :
           rec \in SectorRecords(1) \cup SectorRecords(2)}

\* C5: a block one bit away from a block typed "V" is typed "D".
C5_OneBitFlipGivesPlain ==
    (\A p \in Calls : Done(p)) =>
        \A x, y \in TypedBlocks :
            x.type = "V" /\ OneBitApart(x.v, y.v) => y.type = "D"

\* A value block decoded by one call and a one-bit neighbour of it decoded
\* by the other, in the last address copy and in the third value copy.
C5_Witness ==
    /\ \A p \in Calls : Returned(p)
    /\ \E x, y \in TypedBlocks :
          /\ x.type = "V" /\ y.type = "D" /\ OneBitApart(x.v, y.v)
          /\ x.v[16] # y.v[16] \/ x.v[9] # y.v[9]

\* ------------------------------------------------------------------------
\* C6
\* ------------------------------------------------------------------------

\* Bit n (0 = least significant) of a byte.
BitOf(x, n) == (x \div (2 ^ n)) % 2

\* C6: guessUidSize returns 4 for SAK 08 and 7 for SAK 18 whatever ATQA
\* is, also absent; for any other SAK with ATQA present it returns 4, 7 or
\* 10 when bits 6..4 of atqa[0] are 000, 001 or 010, and "unknown" for the
\* five other patterns.
C6_GuessUidSize ==
    probe.called =>
        LET sak  == probe.sak
            atqa == probe.atqa
            ind  == 4 * BitOf(atqa.v[1].n, 6) + 2 * BitOf(atqa.v[1].n, 5)
                      + BitOf(atqa.v[1].n, 4)
        IN  /\ sak = Num(8) => probe.ret = Num(4)
            /\ sak = Num(24) => probe.ret = Num(7)
            /\ sak # Num(8) /\ sak # Num(24) /\ ~atqa.null =>
                  /\ ind = 0 => probe.ret = Num(4)
                  /\ ind = 1 => probe.ret = Num(7)
                  /\ ind = 2 => probe.ret = Num(10)
                  /\ ind \in 3..7 => probe.ret = Str("unknown")

\* A call with another SAK and ATQA bits 010 that returned 10.
C6_Witness ==
    /\ probe.called
    /\ probe.sak = Num(136)
    /\ probe.atqa = Arr(<<Num(32), Num(0)>>)
    /\ probe.ret = Num(10)

\* ------------------------------------------------------------------------
\* C7
\* ------------------------------------------------------------------------

\* The block 0102030408040004AABBCCDDEEFF0011 of the example.
ExampleBlock ==
    <<"0", "1", "0", "2", "0", "3", "0", "4", "0", "8", "0", "4", "0", "0", "0", "4",
      "A", "A", "B", "B", "C", "C", "D", "D", "E", "E", "F", "F", "0", "0", "1", "1">>

\* The block 0102030408080400AABBCCDDEEFF0011: BCC 08 at offset 4, SAK 08
\* at offset 5, ATQA 04 00 at offsets 6 and 7.
ExampleBlockTagAt5 ==
    <<"0", "1", "0", "2", "0", "3", "0", "4", "0", "8", "0", "8", "0", "4", "0", "0",
      "A", "A", "B", "B", "C", "C", "D", "D", "E", "E", "F", "F", "0", "0", "1", "1">>

\* A normalized text that starts with the given block and goes on in
\* whole blocks of hexadecimal digits.
StartsWellFormed(h, block) ==
    /\ Len(h) >= 32 /\ SubSeq(h, 1, 32) = block
    /\ Len(h) % 32 = 0 /\ AllHex(h)

\* The manufacturer record of the example.
ExampleManufacturer(m) ==
    /\ m.uid = <<1, 2, 3, 4>>
    /\ m.sak = Arr(<<8>>)
    /\ m.ataq = Arr(<<4, 0>>)
    /\ m.bcc = Arr(<<8>>)

\* C7 as stated: a dump whose first block is
\* 0102030408040004AABBCCDDEEFF0011, followed by well-formed blocks,
\* decodes to UID 01 02 03 04, SAK 08, ATQA 04 00, BCC 08.
C7_ExampleAsWritten ==
    \A p \in Calls :
        Done(p) /\ dump[p].isString /\ StartsWellFormed(HexOf(p), ExampleBlock) =>
            /\ outcome[p] = "returned"
            /\ ExampleManufacturer(FileJSON[p].manifacturer)

\* C7 (amended): a dump whose first block is
\* 0102030408080400AABBCCDDEEFF0011, followed by well-formed blocks,
\* decodes to UID 01 02 03 04, SAK 08, ATQA 04 00, BCC 08.
C7_ExampleTagAtOffset5 ==
    \A p \in Calls :
        Done(p) /\ dump[p].isString
                /\ StartsWellFormed(HexOf(p), ExampleBlockTagAt5) =>
            /\ outcome[p] = "returned"
            /\ ExampleManufacturer(FileJSON[p].manifacturer)

\* A returned decode of a whole sector that starts with the amended block.
C7_Witness ==
    \E p \in Calls :
        /\ Returned(p)
        /\ StartsWellFormed(HexOf(p), ExampleBlockTagAt5)
        /\ Len(HexOf(p)) = 128
        /\ ExampleManufacturer(FileJSON[p].manifacturer)
        /\ FileJSON[p].manifacturer.nuid = <<1, 2, 3, 4>>

\* ------------------------------------------------------------------------
\* C8
\* ------------------------------------------------------------------------

\* C8: a dump of 70 bytes, one well-formed sector and 6 more bytes, ends in
\* one of the typed failures MalformedTrailerBlock and
\* MalformedValueBlockShape after the complete sector was processed.
C8_SeventyBytesTypedFailure ==
    \A p \in Calls :
        Done(p) /\ dump[p].isString /\ Len(HexOf(p)) = 140
                /\ AllHex(HexOf(p))
                /\ SubSeq(HexOf(p), 1, 32) = ExampleBlockTagAt5 =>
            /\ outcome[p] \in {"MalformedTrailerBlock", "MalformedValueBlockShape"}
            /\ Len(FileJSON[p].sectors) = 1

\* ------------------------------------------------------------------------
\* C9
\* ------------------------------------------------------------------------

\* The decoded trailers of the two calls' records.
DecodedTrailers ==
    {rec.sectorTrailer : rec \in
        {r \in SectorRecords(1) \cup SectorRecords(2) :
            Len(r.sectorTrailer.accessConditions.parsed) > 0}}

SecondIsCanonicalOfFirst ==
    dump[1].isString /\ dump[2] = Text(Canonical(dump[1].text))

\* C10: a text and the text without its whitespace and in upper case end
\* alike, with equal records when they return; and normalizing the latter
\* leaves it as it is.
C10_CaseAndWhitespaceInvariant ==
    SecondIsCanonicalOfFirst =>
        /\ pc[2] # "entry" => Join(Sectors[2]) = dump[2].text
        /\ (\A p \in Calls : Done(p)) =>
              /\ outcome[1] = outcome[2]
              /\ outcome[1] = "returned" => FileJSON[1] = FileJSON[2]

\* Two returned calls, the first on a text in lower case with a tab and a
\* line break.
C10_Witness ==
    /\ SecondIsCanonicalOfFirst
    /\ \A p \in Calls : Returned(p)
    /\ \E k \in 1..Len(dump[1].text) : dump[1].text[k] = "\n"
    /\ \E k \in 1..Len(dump[1].text) : dump[1].text[k] = "\t"
    /\ \E k \in 1..Len(dump[1].text) : dump[1].text[k] = "f"
    /\ Len(FileJSON[1].sectors) = 2

\* ------------------------------------------------------------------------
\* C11
\* ------------------------------------------------------------------------

C12_UidLength ==
    \A p \in Calls :
        Returned(p) => Len(FileJSON[p].manifacturer.uid) \in {4, 7, 10}

\* ------------------------------------------------------------------------
\* C13
\* ------------------------------------------------------------------------

\* C13: in every record returned for a dump that is not empty, nuid has 4
\* bytes and they are the first 4 bytes of uid.
C13_NuidIsUidPrefix ==
    \A p \in Calls :
        Returned(p) /\ Len(HexOf(p)) > 0 =>
            LET m == FileJSON[p].manifacturer
            IN  /\ Len(m.nuid) = 4
                /\ Len(m.uid) >= 4
                /\ SubSeq(m.uid, 1, 4) = m.nuid

\* ------------------------------------------------------------------------
\* C14
\* ------------------------------------------------------------------------

\* A string of 3 characters over {"0", "1"}.
IsAccessTuple(t) == Len(t) = 3 /\ \A k \in 1..3 : t[k] \in {"0", "1"}

\* C14 as stated: every sector of a returned record has 4 parsed entries,
\* each a string of 3 characters over {"0", "1"}.
C14_FourEntriesInEverySector ==
    \A p \in Calls :
        Returned(p) =>
            \A s \in 1..Len(FileJSON[p].sectors) :
                LET parsed == FileJSON[p].sectors[s].sectorTrailer.accessConditions.parsed
                IN  /\ Len(parsed) = 4
                    /\ \A n \in 1..Len(parsed) : IsAccessTuple(parsed[n])

\* C14 (amended): in a returned record every sector that reaches block
\* position 3 has 4 parsed entries, each a string of 3 characters over
\* {"0", "1"}; a last sector of fewer than 4 blocks has no parsed entry.
C14_FourEntriesPerTrailer ==
    \A p \in Calls :
        Returned(p) =>
            LET h == HexOf(p)
            IN  \A s \in 1..Len(FileJSON[p].sectors) :
                LET parsed == FileJSON[p].sectors[s].sectorTrailer.accessConditions.parsed
                IN  /\ Len(parsed) = IF HasTrailer(SectorText(h, s)) THEN 4 ELSE 0
                    /\ \A n \in 1..Len(parsed) : IsAccessTuple(parsed[n])

\* A returned record of two sectors: the first with 4 parsed entries that
\* are not all alike, the second, of fewer than 4 blocks, with none.
C14_Witness ==
    \E p \in Calls :
        /\ Returned(p)
        /\ Len(FileJSON[p].sectors) = 2
        /\ LET a == FileJSON[p].sectors[1].sectorTrailer.accessConditions.parsed
               b == FileJSON[p].sectors[2].sectorTrailer.accessConditions.parsed
           IN  Len(a) = 4 /\ a[1] # a[4] /\ Len(b) = 0

\* ------------------------------------------------------------------------
\* C15
\* ------------------------------------------------------------------------

\* The number of blocks of a sector text, the last one possibly short.
BlockCount(sec) == (Len(sec) + 31) \div 32

\* The number of blocks of a sector text before block position 3.
BlocksBeforeTrailer(sec) == IF BlockCount(sec) < 3 THEN BlockCount(sec) ELSE 3

\* C15 as stated: in a returned record sector 0 has 2 data blocks and every
\* other sector has 3.
C15_TwoThenThreeDataBlocks ==
    \A p \in Calls :
        Returned(p) =>
            \A s \in 1..Len(FileJSON[p].sectors) :
                Len(FileJSON[p].sectors[s].dataValues) = IF s = 1 THEN 2 ELSE 3

\* C15 (amended): in a returned record a sector holds one data block per
\* block of the dump before block position 3, less the first block in
\* sector 0: 2 in sector 0 and 3 in every other sector when the sector has
\* 3 blocks or more, fewer in a shorter last sector.  The first data block
\* of a sector after sector 0 is block 0 of that sector, and the
\* manufacturer record is that of block 0 of sector 0.
C15_DataBlocksPerSector ==
    \A p \in Calls :
        Returned(p) =>
            LET h == HexOf(p)
                R == FileJSON[p]
            IN  /\ \A s \in 1..Len(R.sectors) :
                    LET sec == SectorText(h, s)
                        n   == BlocksBeforeTrailer(sec) - (IF s = 1 THEN 1 ELSE 0)
                    IN  /\ Len(R.sectors[s].dataValues) = n
                        /\ Len(R.sectors[s].dataTypes) = n
                        /\ s > 1 => R.sectors[s].dataValues[1] = BytesOf(sec, 0, 16)
                        /\ s = 1 /\ n >= 1 =>
                               R.sectors[s].dataValues[1] = BytesOf(sec, 16, 16)
                /\ Len(h) >= 32 /\ AllHex(SubSeq(h, 1, 8)) =>
                       R.manifacturer.nuid = BytesOf(h, 0, 4)

\* A returned record of two whole sectors whose second sector starts with
\* a tagged block kept as its first data block, the manufacturer record
\* being that of the first sector.
C15_Witness ==
    \E p \in Calls :
        /\ Returned(p)
        /\ Len(FileJSON[p].sectors) = 2
        /\ Len(FileJSON[p].sectors[1].dataValues) = 2
        /\ Len(FileJSON[p].sectors[2].dataValues) = 3
        /\ FileJSON[p].sectors[2].dataValues[1] = BlkM7
        /\ FileJSON[p].manifacturer.uid = <<1, 2, 3, 4>>

\* ------------------------------------------------------------------------
\* C16
\* ------------------------------------------------------------------------

\* What call p holds: its argument, its position and its records.
Own(p) ==
    <<dump[p], pc[p], Sectors[p], i[p], Blocks[p], j[p], FileJSON[p],
      Sector[p], outcome[p]>>

\* A call that has ended has the outcome of the same call run on its own,
\* and the same record when it returned.
EndsAsAlone ==
    \A p \in Calls :
        Done(p) =>
            /\ outcome[p] = DumpToJsonAlone(dump[p]).outcome
            /\ outcome[p] = "returned" =>
                   FileJSON[p] = DumpToJsonAlone(dump[p]).FileJSON

\* A step changes what one call holds and nothing of the other; the record
\* of a call that has ended does not change any more.
StepsOfOneCall ==
    /\ \A p, q \in Calls : p # q /\ Own(p)' # Own(p) => Own(q)' = Own(q)
    /\ \A p \in Calls : Done(p) => FileJSON'[p] = FileJSON[p]

BitChar(x, n) == IF BitOf(x, n) = 1 THEN "1" ELSE "0"

\* The string C1 C2 C3 taken at bit n: C1 is bit n of a1, C2 the inverse
\* of bit n of a0, C3 bit n of a2.
AccessAtBit(a, n) ==
    <<BitChar(a[2], n), BitChar(255 - a[1], n), BitChar(a[3], n)>>

\* C17 as stated: the entry at index idx (from 0) of parsed is C1 C2 C3
\* taken at bit k = 3 - idx of the access bytes.
C17_BitKFromLsb ==
    \A a \in DecodedTrailers :
        \A idx \in 0..3 :
            a.accessConditions.parsed[idx + 1]
                = AccessAtBit(a.accessConditions.unParsed, 3 - idx)

\* C17 (amended): the entry at index idx (from 0) of parsed is C1 C2 C3
\* taken at bit 7 - k = 4 + idx of the access bytes, k = 3 - idx being the
\* index of the character in the binary string of the byte, counted from
\* its most significant end.
C17_BitKFromMsb ==
    \A a \in DecodedTrailers :
        /\ Len(a.accessConditions.parsed) = 4
        /\ \A idx \in 0..3 :
              a.accessConditions.parsed[idx + 1]
                  = AccessAtBit(a.accessConditions.unParsed, 4 + idx)

\* The trailers with access bytes FF 07 80 and 78 77 88 decoded to
\* 000 000 000 001 and 100 100 100 011.
C17_Witness ==
    /\ \E a \in DecodedTrailers :
          /\ a.accessConditions.unParsed = <<255, 7, 128>>
          /\ a.accessConditions.parsed
                = <<<<"0", "0", "0">>, <<"0", "0", "0">>,
                    <<"0", "0", "0">>, <<"0", "0", "1">>>>
    /\ \E a \in DecodedTrailers :
          /\ a.accessConditions.unParsed = <<120, 119, 136>>
          /\ a.accessConditions.parsed
                = <<<<"1", "0", "0">>, <<"1", "0", "0">>,
                    <<"1", "0", "0">>, <<"0", "1", "1">>>>

\* ------------------------------------------------------------------------
\* C18
\* ------------------------------------------------------------------------

\* The first block of a normalized text holds at least 10 bytes, all
\* hexadecimal.
HasTagBytes(h) == Len(h) >= 20 /\ AllHex(SubSeq(h, 1, 20))

\* The 4-byte-UID tag: byte 5 is 08 or 88, byte 6 is 04, byte 7 is 00.
Tag4(h) ==
    /\ ByteOf(h, 5) \in {8, 136} /\ ByteOf(h, 6) = 4 /\ ByteOf(h, 7) = 0

\* The 7-byte-UID tag: byte 7 is 18 or 98, byte 8 is 44, byte 9 is 00.
Tag7(h) ==
    /\ ByteOf(h, 7) \in {24, 152} /\ ByteOf(h, 8) = 68 /\ ByteOf(h, 9) = 0

\* The SAK and the low ATQA byte the tag gives.
TagSak(h) == IF Tag4(h) THEN ByteOf(h, 5) ELSE ByteOf(h, 7)

TagAtqa0(h) == IF Tag4(h) THEN ByteOf(h, 6) ELSE ByteOf(h, 8)

\* The UID size of the first block resolves to "unknown": a tag is found,
\* its SAK is neither 08 nor 18 and bits 6..4 of the low ATQA byte are none
\* of 000, 001, 010.
UnknownUidSize(h) ==
    /\ HasTagBytes(h)
    /\ Tag4(h) \/ Tag7(h)
    /\ TagSak(h) \notin {8, 24}
    /\ (TagAtqa0(h) \div 16) % 8 \in 3..7

\* C18: a call on a dump whose UID size resolves to "unknown" fails: it
\* returns no record whose uid and data were sliced with that size.
C18_UnknownSizeFails ==
    \A p \in Calls :
        Done(p) /\ dump[p].isString /\ UnknownUidSize(HexOf(p)) =>
            outcome[p] # "returned"

\* ------------------------------------------------------------------------
\* C19
\* ------------------------------------------------------------------------

\* C19: when block 0 of sector 0 carries neither tag, SAK and ATQA are
\* absent and the resolution of the UID size completes: the call does not
\* fail in the manufacturer block.
C19_NoTagStillResolves ==
    \A p \in Calls :
        Done(p) /\ dump[p].isString /\ HasTagBytes(HexOf(p))
                /\ Len(HexOf(p)) >= 32 /\ AllHex(SubSeq(HexOf(p), 1, 32))
                /\ ~Tag4(HexOf(p)) /\ ~Tag7(HexOf(p)) =>
            ~(outcome[p] = "TypeError" /\ i[p] = 0 /\ j[p] = 0)

\* ------------------------------------------------------------------------
\* C20
\* ------------------------------------------------------------------------

\* C20: a call on a dump whose last block has fewer than 32 characters
\* never returns a record.
C20_ShortLastBlockFails ==
    \A p \in Calls :
        Done(p) /\ dump[p].isString /\ Len(HexOf(p)) % 32 # 0 =>
            outcome[p] # "returned"

\* ------------------------------------------------------------------------
\* C21
\* ------------------------------------------------------------------------

\* The block at position 3 of a sector text that has one.
TrailerText(sec) == SubSeq(sec, 97, Len(sec))

\* A sector of the normalized text reaches block position 3 with a block
\* that is not 32 characters of [0-9A-F].
MalformedTrailer(h, s) ==
    /\ HasTrailer(SectorText(h, s))
    /\ ~(Len(TrailerText(SectorText(h, s))) = 32
         /\ AllHex(TrailerText(SectorText(h, s))))

Block0Bytes(h) == Uint8Array(ParseBytes(BlockText(SectorText(h, 1), 1)))

\* The number of bytes an optional field of the manufacturer record takes.
FieldLength(field) == IF field.null THEN 0 ELSE Len(field.v)

\* C22: in every record returned for a dump that is not empty, bcc is
\* present exactly when the uid has 4 bytes, and data is block 0 from
\* offset dataStart on, dataStart being the length of uid plus 1 for a
\* present bcc, 1 for a present sak and 2 for a present atqa: 8 after a
\* 4-byte uid and 10 after a 7-byte uid.
C22_DataStartsAfterFields ==
    \A p \in Calls :
        Returned(p) /\ Len(HexOf(p)) > 0 =>
            LET m     == FileJSON[p].manifacturer
                bytes == Block0Bytes(HexOf(p))
                start == Len(m.uid) + FieldLength(m.bcc) + FieldLength(m.sak)
                            + FieldLength(m.ataq)
            IN  /\ ~m.bcc.null <=> Len(m.uid) = 4
                /\ start \in {8, 10}
                /\ start = 8 <=> Len(m.uid) = 4
                /\ m.data = SubSeq(bytes, start + 1, Len(bytes))

\* ------------------------------------------------------------------------
\* C23
\* ------------------------------------------------------------------------

\* A normalized text of whole blocks of hexadecimal digits whose first
\* block carries a tag, and whose length is no multiple of a sector: 64 n
\* + 16 m bytes with m in 1..3.
WellFormedWithRemainder(h) ==
    /\ AllHex(h)
    /\ Len(h) % (2 * SECTOR_SIZE) \in {32, 64, 96}
    /\ Tag4(h) \/ Tag7(h)

\* The m blocks of the remainder, as byte arrays, without block 0 of
\* sector 0.
RemainderBlocks(h) ==
    LET n     == Len(h) \div (2 * SECTOR_SIZE)
        sec   == SectorText(h, n + 1)
        first == IF n = 0 THEN 2 ELSE 1
    IN  [b \in 1..(BlockCount(sec) - first + 1) |->
            BytesOf(BlockText(sec, b + first - 1), 0, BLOCK_SIZE)]

\* C23: a call on a dump of 64 n + 16 m bytes (m in 1..3) of well-formed
\* blocks returns a record of n + 1 sectors; the last sector holds the m
\* remaining blocks as data blocks (block 0 of sector 0 excepted), in
\* order, and its trailer is the untouched placeholder.
C23_RemainderKeptAsLastSector ==
    \A p \in Calls :
        Done(p) /\ dump[p].isString /\ WellFormedWithRemainder(HexOf(p)) =>
            LET h    == HexOf(p)
                n    == Len(h) \div (2 * SECTOR_SIZE)
                last == FileJSON[p].sectors[n + 1]
            IN  /\ outcome[p] = "returned"
                /\ Len(FileJSON[p].sectors) = n + 1
                /\ last.dataValues = RemainderBlocks(h)
                /\ Len(last.dataTypes) = Len(last.dataValues)
                /\ last.sectorTrailer = InitSectorTrailer
                /\ \A s \in 1..n :
                       FileJSON[p].sectors[s].sectorTrailer # InitSectorTrailer

\* A record was returned for a dump of 64 + 16 bytes: a whole sector with
\* its trailer decoded, then a sector of one data block.
C23_Witness ==
    \E p \in Calls :
        /\ Returned(p)
        /\ Len(HexOf(p)) = 2 * (SECTOR_SIZE + BLOCK_SIZE)
        /\ Len(FileJSON[p].sectors) = 2
        /\ Len(FileJSON[p].sectors[2].dataValues) = 1
        /\ FileJSON[p].sectors[2].sectorTrailer = InitSectorTrailer
        /\ FileJSON[p].sectors[1].sectorTrailer # InitSectorTrailer

\* ------------------------------------------------------------------------
\* C26
\* ------------------------------------------------------------------------

\* const isSectorTrailerBlock = blockIndex === 3 (Analyze): the block
\* rendered with type 'T'.
isSectorTrailerBlock(blockIndex) == blockIndex = 3

\* The index, in sector.querySelectorAll('.HEXblock[data-block]'), of the
\* element rendered as the trailer: the four blocks of a sector are
\* rendered in the order of blockIndex, and analyzeAccessConditions gives
\* element index the permissions of accessConditions[index].
TrailerIndexInHighlighting ==
    CHOOSE index \in 0..(BLOCK_COUNT - 1) : isSectorTrailerBlock(index)

\* The upper nibbles of the three raw access bytes.
UpperNibbles(raw) == [b \in 1..Len(raw) |-> raw[b] \div 16]

\* The MIFARE access condition C1 C2 C3 of block blk (0..3) held by the raw
\* access bytes: C1 is bit 4 + blk of byte 1, C2 the inverse of bit 4 + blk
\* of byte 0, C3 bit 4 + blk of byte 2.
BlockAccessCondition(raw, blk) ==
    <<IF BitOf(raw[2], 4 + blk) = 1 THEN "1" ELSE "0",
      IF BitOf(raw[1], 4 + blk) = 1 THEN "0" ELSE "1",
      IF BitOf(raw[3], 4 + blk) = 1 THEN "1" ELSE "0">>

\* C26: the parsed access conditions of every decoded trailer hold, at
\* index blk = 0..3, the access condition of block blk in ascending block
\* order; two trailers whose access bytes agree in their upper nibbles
\* have the same parsed conditions; and the access bytes FF 07 80 parse to
\* 000 000 000 001, with 001 at the index the highlighting gives to the
\* trailer.
C26_AscendingBlockOrder ==
    /\ TrailerIndexInHighlighting = BLOCK_COUNT - 1
    /\ \A a \in DecodedTrailers :
          LET raw    == a.accessConditions.unParsed
              parsed == a.accessConditions.parsed
          IN  /\ parsed = [n \in 1..BLOCK_COUNT |-> BlockAccessCondition(raw, n - 1)]
              /\ raw = <<255, 7, 128>> =>
                    /\ \A n \in 1..(BLOCK_COUNT - 1) : parsed[n] = <<"0", "0", "0">>
                    /\ parsed[TrailerIndexInHighlighting + 1] = <<"0", "0", "1">>
    /\ \A a, b \in DecodedTrailers :
          UpperNibbles(a.accessConditions.unParsed)
                = UpperNibbles(b.accessConditions.unParsed)
            => a.accessConditions.parsed = b.accessConditions.parsed

\* The trailers with access bytes FF 07 80 and F0 08 8F are both decoded,
\* to the same conditions 000 000 000 001.
C26_Witness ==
    \E a, b \in DecodedTrailers :
        /\ a.accessConditions.unParsed = <<255, 7, 128>>
        /\ b.accessConditions.unParsed = <<240, 8, 143>>
        /\ a.accessConditions.parsed = b.accessConditions.parsed
        /\ b.accessConditions.parsed[TrailerIndexInHighlighting + 1]
              = <<"0", "0", "1">>

\* ------------------------------------------------------------------------
\* C27
\* ------------------------------------------------------------------------

\* The bytes of an optional field of the manufacturer record: none when
\* the field is absent.
FieldBytes(field) == IF field.null THEN << >> ELSE field.v

\* C27: in every record returned for a dump that is not empty, uid, bcc
\* (if present), sak (if present), atqa (if present) and data, put end to
\* end, are the 16 bytes of block 0 of sector 0.
C27_FieldsPartitionBlock0 ==
    \A p \in Calls :
        Returned(p) /\ Len(HexOf(p)) > 0 =>
            LET m == FileJSON[p].manifacturer
                joined == m.uid \o FieldBytes(m.bcc) \o FieldBytes(m.sak)
                              \o FieldBytes(m.ataq) \o m.data
            IN  /\ Len(joined) = BLOCK_SIZE
                /\ joined = Block0Bytes(HexOf(p))

\* ------------------------------------------------------------------------
\* C28
\* ------------------------------------------------------------------------

\* The values block 0 of sector 0 of a normalized text parses to.
Block0Values(h) == ParseBytes(BlockText(SectorText(h, 1), 1))

AfterBlock0(h) == SubSeq(h, 2 * BLOCK_SIZE + 1, Len(h))

\* The k-th pair of characters (from 1) of block 0, the last one possibly
\* a single character.
Block0Pair(h, k) ==
    SubSeq(h, 2 * k - 1, IF 2 * k <= Len(h) /\ 2 * k <= 2 * BLOCK_SIZE
                         THEN 2 * k ELSE 2 * k - 1)

\* The number of pairs of block 0.
Block0PairCount(h) ==
    IF Len(h) >= 2 * BLOCK_SIZE THEN BLOCK_SIZE ELSE (Len(h) + 1) \div 2

\* A pair of characters one of which is no hexadecimal digit.
NonHexPair(pair) == ~AllHex(pair)

\* What a pair of characters stands for: the hexadecimal digits before its
\* first character that is none, read as a number, after an optional
\* sign; -1 for "no number".
PrefixValue(pair) ==
    LET signed == pair[1] \in {"-", "+"}
        digits == IF signed THEN Tail(pair) ELSE pair
        run    == IF Len(digits) = 0 \/ ~AllHex(<<digits[1]>>) THEN << >>
                  ELSE IF Len(digits) = 1 \/ ~AllHex(<<digits[2]>>)
                       THEN <<digits[1]>> ELSE digits
        value  == IF Len(run) = 2 THEN 16 * NibbleOf(run[1]) + NibbleOf(run[2])
                  ELSE NibbleOf(run[1])
    IN  IF Len(run) = 0 THEN -1
        ELSE IF pair[1] = "-" /\ value > 0 THEN 256 - value
        ELSE value

\* The byte stored for a pair: "no number" is stored as 0.
StoredByte(pair) == IF PrefixValue(pair) = -1 THEN 0 ELSE PrefixValue(pair)

\* Block 0, read by PrefixValue, carries one of the two tags.
PrefixTag(h) ==
    /\ Block0PairCount(h) >= 10
    /\ LET v(n) == PrefixValue(Block0Pair(h, n + 1))
       IN  \/ v(5) \in {8, 136} /\ v(6) = 4 /\ v(7) = 0
           \/ v(7) \in {24, 152} /\ v(8) = 68 /\ v(9) = 0

\* The bytes the returned record holds for the pairs of block 0 that the
\* taken fields cover whatever the tag: the first four (nuid) and the last
\* Len(data).
StoresPairsAs(p, f(_)) ==
    LET h == HexOf(p)
        m == FileJSON[p].manifacturer
        n == Block0PairCount(h)
    IN  /\ \A k \in 1..4 : k <= n => m.nuid[k] = f(Block0Pair(h, k))
        /\ \A k \in 1..Len(m.data) :
              m.data[k] = f(Block0Pair(h, n - Len(m.data) + k))

C29_FailureWitness ==
    \E p \in Calls :
        /\ Done(p) /\ outcome[p] = "TypeError" /\ i[p] = 0 /\ j[p] = 0
        /\ Block0PairCount(HexOf(p)) = BLOCK_SIZE
        /\ Block0Pair(HexOf(p), 6) = <<"0", "G">>
        /\ AllHex(AfterBlock0(HexOf(p)))

\* ------------------------------------------------------------------------
\* C30
\* ------------------------------------------------------------------------

\* The sectors (from 1) in which two normalized texts of equal length
\* differ.
DifferingSectors(g, h) ==
    {s \in 1..SectorCount(g) : SectorText(g, s) # SectorText(h, s)}

\* C30: when two calls on dumps of equal length both return, the sector
\* records at every index where the two dumps hold the same bytes are
\* equal, and the manufacturer records are equal when sector 0 holds the
\* same bytes in both: with the dumps differing in sector j alone, every
\* sector record at an index other than j is the same in both, and so is
\* the manufacturer record unless j = 0.
C30_SectorsDecodedApart ==
    Returned(1) /\ Returned(2) /\ Len(HexOf(1)) = Len(HexOf(2)) =>
        LET D == DifferingSectors(HexOf(1), HexOf(2))
        IN  /\ Len(FileJSON[1].sectors) = Len(FileJSON[2].sectors)
            /\ \A s \in 1..Len(FileJSON[1].sectors) :
                  s \notin D => FileJSON[1].sectors[s] = FileJSON[2].sectors[s]
            /\ 1 \notin D => FileJSON[1].manifacturer = FileJSON[2].manifacturer

\* Both calls returned records of three sectors for dumps that differ in
\* their second sector alone: the second sector records differ, the first
\* and third and the manufacturer records are the same.
C30_Witness ==
    /\ Returned(1) /\ Returned(2)
    /\ Len(HexOf(1)) = Len(HexOf(2))
    /\ DifferingSectors(HexOf(1), HexOf(2)) = {2}
    /\ Len(FileJSON[1].sectors) = 3
    /\ FileJSON[1].sectors[2] # FileJSON[2].sectors[2]
    /\ FileJSON[1].sectors[1] = FileJSON[2].sectors[1]
    /\ FileJSON[1].sectors[3] = FileJSON[2].sectors[3]
    /\ FileJSON[1].manifacturer = FileJSON[2].manifacturer

\* ------------------------------------------------------------------------
\* C24
\* ------------------------------------------------------------------------

\* What the page renders: its sectors when fileData is set, the text
\* language.NoFile otherwise.
ShowsNoFile == ui.fileData.null

\* C24: no failure of DumpToJson in the readFile callback is left
\* unhandled, and once the decoding of the selected file has failed the
\* page shows no data instead of the record of a file loaded before.
C24_FailedDecodeShowsNoData ==
    /\ ui.rejections = 0
    /\ ui.last = "threw" /\ ui.messages = << >> => ShowsNoFile

\* ------------------------------------------------------------------------
\* C25
\* ------------------------------------------------------------------------

====
